---- MODULE Spec2Model ----
(***************************************************************************)
(* Verification model of the Cerina Protocol Foundry backend:              *)
(*   - backend/vector_store.py : message normalisation, topic extraction,  *)
(*     the draft_embeddings table, index / search / delete                 *)
(*   - backend/graph.py, backend/state.py, backend/server.py : the agent   *)
(*     graph, its state reducers, routing functions and the HTTP handlers  *)
(*                                                                         *)
(* Python strings are modelled as sequences of one-character strings, so   *)
(* that lower(), strip(), re.sub(), slicing and the `in` substring test    *)
(* are computed character by character as the code computes them.          *)
(***************************************************************************)
EXTENDS Integers, Sequences, FiniteSets, TLC

VARIABLES
    \* ---- _normalize_message applied to inputs (SpecNorm) ----
    nPc,        \* "input" | "normalized" | "renormalized"
    nMsg,       \* the message handed to _normalize_message
    nVar,       \* a second message, differing from nMsg only in one aspect
    nKind,      \* which aspect: "case" | "punct" | "space"
    nKey,       \* _normalize_message(nMsg)
    nVarKey,    \* _normalize_message(nVar)
    nReKey,     \* _normalize_message(nKey)
    \* ---- the draft_embeddings table and the calls on it (SpecStore) ----
    tableExists,  \* TRUE once CREATE TABLE IF NOT EXISTS has run
    table,        \* the rows of draft_embeddings, in rowid order
    sOp,          \* name of the most recent vector_store call
    sArgs,        \* its arguments (and what the embedding service answered)
    sReplaced,    \* rows that the most recent index_draft displaced
    sKey,         \* key returned by the most recent index_draft
    sResults,     \* list returned by the most recent search_drafts
    sPrev,        \* threshold and result count of the search before it,
                  \* when that search had the same query, limit and table
    sError,       \* "none", or the exception the most recent call raised
    sBefore,      \* the rows as the most recent delete_draft found them
    inflight,     \* caller -> its index_draft call suspended at an await
    \* ---- the compiled graph behind the HTTP handlers (Spec) ----
    checkpoint,   \* thread id -> persisted channel values ({} when unknown)
    run,          \* thread id -> status of its latest run and the node due next
    activated,    \* thread id -> nodes activated so far in its latest run
    lastOut,      \* thread id -> partial update returned by the last activation
    runs,         \* thread id -> number of runs started on it
    reply,        \* thread id -> outcome of the latest request on it
    request,      \* thread id -> the request that started its latest run
    events,       \* thread id -> events of its latest /stream response
    body,         \* thread id -> JSON body of the latest GET /state answer
    prior,        \* thread id -> what the request starting its latest run found
    sent,         \* thread id -> the latest request on it and its arguments
    \* ---- the environment of the processes ----
    apiKey,       \* TRUE when OPENAI_API_KEY is set
    quota,        \* thread id -> runs and activations explored on the thread
    cli           \* outcome of the command-line entry points

normVars == <<nPc, nMsg, nVar, nKind, nKey, nVarKey, nReKey>>

storeVars == <<tableExists, table, sOp, sArgs, sReplaced, sKey, sResults, sPrev, sError, sBefore, inflight>>

graphVars == <<checkpoint, run, activated, lastOut, runs, reply, request, events, body, prior, sent>>

envVars == <<apiKey, quota, cli>>

vars == <<normVars, storeVars, graphVars, envVars>>

----------------------------------------------------------------------------
(* Generic helpers *)

Min(a, b) == IF a <= b THEN a ELSE b

Max(a, b) == IF a >= b THEN a ELSE b

Indices(s) == [i \in 1..Len(s) |-> i]

\* n copies of the character c
Rep(c, n) == [i \in 1..n |-> c]

----------------------------------------------------------------------------
(* Python str primitives used by vector_store.py *)

UpperCase == {"A","B","C","D","E","F","G","H","I","J","K","L","M",
              "N","O","P","Q","R","S","T","U","V","W","X","Y","Z"}

LowerCase == {"a","b","c","d","e","f","g","h","i","j","k","l","m",
              "n","o","p","q","r","s","t","u","v","w","x","y","z"}

Digits == {"0","1","2","3","4","5","6","7","8","9"}

\* characters matched by the regex class \s
IsSpace(c) == c \in {" ", "\t", "\n", "\r"}

\* characters matched by the regex class \w (letters, digits, underscore)
IsWord(c) == c \in UpperCase \cup LowerCase \cup Digits \cup {"_"}

LowerChar(c) ==
    CASE c = "A" -> "a" [] c = "B" -> "b" [] c = "C" -> "c" [] c = "D" -> "d"
      [] c = "E" -> "e" [] c = "F" -> "f" [] c = "G" -> "g" [] c = "H" -> "h"
      [] c = "I" -> "i" [] c = "J" -> "j" [] c = "K" -> "k" [] c = "L" -> "l"
      [] c = "M" -> "m" [] c = "N" -> "n" [] c = "O" -> "o" [] c = "P" -> "p"
      [] c = "Q" -> "q" [] c = "R" -> "r" [] c = "S" -> "s" [] c = "T" -> "t"
      [] c = "U" -> "u" [] c = "V" -> "v" [] c = "W" -> "w" [] c = "X" -> "x"
      [] c = "Y" -> "y" [] c = "Z" -> "z" [] OTHER -> c

\* str.lower()
StrLower(s) == [i \in 1..Len(s) |-> LowerChar(s[i])]

\* str.strip(): drop leading and trailing whitespace
StrStrip(s) ==
    LET nonsp == SelectSeq(Indices(s), LAMBDA i : ~IsSpace(s[i]))
    IN  IF nonsp = <<>> THEN <<>>
        ELSE SubSeq(s, nonsp[1], nonsp[Len(nonsp)])

\* re.sub(r'\s+', ' ', s): every maximal whitespace run becomes one space
CollapseSpaces(s) ==
    LET keep == SelectSeq(Indices(s),
                    LAMBDA i : ~IsSpace(s[i]) \/ i = 1 \/ ~IsSpace(s[i-1]))
    IN  [k \in 1..Len(keep) |-> IF IsSpace(s[keep[k]]) THEN " " ELSE s[keep[k]]]

\* re.sub(r'[^\w\s]', '', s): delete every character that is neither \w nor \s
RemovePunctuation(s) == SelectSeq(s, LAMBDA c : IsWord(c) \/ IsSpace(c))

\* s[:n] for n >= 0
Prefix(s, n) == SubSeq(s, 1, Min(n, Len(s)))

\* the slice bound of _normalize_message
KeyLimit == 200

\* vector_store._normalize_message
_normalize_message(message) ==
    LET lowered   == StrStrip(StrLower(message))
        collapsed == CollapseSpaces(lowered)
        stripped  == RemovePunctuation(collapsed)
    IN  Prefix(stripped, KeyLimit)

----------------------------------------------------------------------------
(* Inputs of _normalize_message: strings built from at most MaxSegments    *)
(* segments of one repeated character, some longer than the 200 slice.     *)

MaxSegments == 3

SegmentChars == {"a", "B", " ", "."}

SegmentLens == {1, 2, 199}

RECURSIVE Concat(_)
Concat(ss) == IF ss = <<>> THEN <<>> ELSE Head(ss) \o Concat(Tail(ss))

SegmentSpecs == UNION {[1..n -> SegmentChars \X SegmentLens] : n \in 0..MaxSegments}

SegmentString(spec) == Concat([i \in 1..Len(spec) |-> Rep(spec[i][1], spec[i][2])])

NormInputs == {SegmentString(spec) : spec \in SegmentSpecs}

\* a message that differs from s only in the named aspect
Variant(s, kind) ==
    CASE kind = "case"  -> StrLower(s)
      [] kind = "punct" -> RemovePunctuation(s)
      [] kind = "space" -> CollapseSpaces(s)

VariantKinds == {"case", "punct", "space"}

NormIdle ==
    /\ nPc = "off"
    /\ nMsg = <<>>
    /\ nVar = <<>>
    /\ nKind = "none"
    /\ nKey = <<>>
    /\ nVarKey = <<>>
    /\ nReKey = <<>>

NormInit ==
    /\ nPc = "input"
    /\ nMsg \in NormInputs
    /\ nKind \in VariantKinds
    /\ nVar = Variant(nMsg, nKind)
    /\ nKey = <<>>
    /\ nVarKey = <<>>
    /\ nReKey = <<>>

\* index_draft's first step on each of the two messages
NormalizeMessage ==
    /\ nPc = "input"
    /\ nKey' = _normalize_message(nMsg)
    /\ nVarKey' = _normalize_message(nVar)
    /\ nPc' = "normalized"
    /\ UNCHANGED <<nMsg, nVar, nKind, nReKey, storeVars, graphVars, envVars>>

\* the returned key handed back to _normalize_message
NormalizeKey ==
    /\ nPc = "normalized"
    /\ nReKey' = _normalize_message(nKey)
    /\ nPc' = "renormalized"
    /\ UNCHANGED <<nMsg, nVar, nKind, nKey, nVarKey, storeVars, graphVars, envVars>>

NormNext == NormalizeMessage \/ NormalizeKey


----------------------------------------------------------------------------
(* vector_store.py: topics, embeddings, the draft_embeddings table *)

\* the `topics` list of extract_topics
topics == {
    <<"a","n","x","i","e","t","y">>,
    <<"d","e","p","r","e","s","s","i","o","n">>,
    <<"s","t","r","e","s","s">>,
    <<"p","a","n","i","c">>,
    <<"p","h","o","b","i","a">>,
    <<"o","c","d">>,
    <<"p","t","s","d">>,
    <<"t","r","a","u","m","a">>,
    <<"g","r","i","e","f">>,
    <<"a","n","g","e","r">>,
    <<"s","l","e","e","p">>,
    <<"i","n","s","o","m","n","i","a">>,
    <<"e","a","t","i","n","g">>,
    <<"a","d","d","i","c","t","i","o","n">>,
    <<"r","e","l","a","t","i","o","n","s","h","i","p">>,
    <<"s","o","c","i","a","l">>,
    <<"w","o","r","k">>,
    <<"s","c","h","o","o","l">>,
    <<"e","x","a","m">>,
    <<"p","r","e","s","e","n","t","a","t","i","o","n">>,
    <<"p","u","b","l","i","c"," ","s","p","e","a","k","i","n","g">>,
    <<"c","o","n","f","i","d","e","n","c","e">>,
    <<"s","e","l","f"," ","e","s","t","e","e","m">>,
    <<"l","o","n","e","l","i","n","e","s","s">>,
    <<"g","u","i","l","t">>,
    <<"s","h","a","m","e">>,
    <<"w","o","r","r","y">>,
    <<"f","e","a","r">>,
    <<"a","n","g","e","r"," ","m","a","n","a","g","e","m","e","n","t">>,
    <<"m","i","n","d","f","u","l","n","e","s","s">>,
    <<"r","e","l","a","x","a","t","i","o","n">>
}

\* "Anxiety help"
MsgAnxiety == <<"A","n","x","i","e","t","y"," ","h","e","l","p">>

\* "anxiety  HELP!" (same key as MsgAnxiety)
MsgAnxietyLoud == <<"a","n","x","i","e","t","y"," "," ","H","E","L","P","!">>

\* "sleep tips"
MsgSleep == <<"s","l","e","e","p"," ","t","i","p","s">>

\* "anxiety now"
QueryAnxiety == <<"a","n","x","i","e","t","y"," ","n","o","w">>

\* "hello" (no topic keyword)
QueryHello == <<"h","e","l","l","o">>

\* "Sleep Hygiene"
TitleSleep == <<"S","l","e","e","p"," ","H","y","g","i","e","n","e">>

\* "Anxiety Ladder"
TitleAnxiety == <<"A","n","x","i","e","t","y"," ","L","a","d","d","e","r">>

\* Python's `sub in text`
Contains(text, sub) ==
    \E i \in 1..(Len(text) - Len(sub) + 1) :
        \A j \in 1..Len(sub) : text[i + j - 1] = sub[j]

\* vector_store.extract_topics
extract_topics(text) ==
    LET text_lower == StrLower(text)
    IN  {topic \in topics : Contains(text_lower, topic)}

\* json.dumps / json.loads: the stored TEXT column wraps the value
Dumps(value) == [json |-> value]

Loads(text) == text.json

\* a column text that is no JSON document: json.loads raises on it
Malformed == [malformed |-> TRUE]

\* json.loads(text) returns a value
Decodes(text) == "json" \in DOMAIN text

\* the columns search_drafts hands to json.loads
JsonColumns == {"embedding", "draft_content", "metadata"}

\* Optional[T]: None is the empty sequence, a value v is <<v>>
None == <<>>

Some(v) == <<v>>

\* json.dumps({})
EmptyDict == [k \in {} |-> 0]

\* minimum similarity of a match, in hundredths (0.75)
SIMILARITY_THRESHOLD == 75

RECURSIVE SumSeq(_)
SumSeq(s) == IF s = <<>> THEN 0 ELSE Head(s) + SumSeq(Tail(s))

\* sum(a * b for a, b in zip(vec1, vec2))
Dot(vec1, vec2) == SumSeq([i \in 1..Min(Len(vec1), Len(vec2)) |-> vec1[i] * vec2[i]])

\* vector_store.cosine_similarity.  The float num / sqrt(den2) is kept as the
\* exact pair (num, den2), den2 > 0; zero magnitude gives 0.0.
cosine_similarity(vec1, vec2) ==
    LET dot_product == Dot(vec1, vec2)
        magnitude1sq == SumSeq([i \in 1..Len(vec1) |-> vec1[i] * vec1[i]])
        magnitude2sq == SumSeq([i \in 1..Len(vec2) |-> vec2[i] * vec2[i]])
    IN  IF magnitude1sq = 0 \/ magnitude2sq = 0
        THEN [num |-> 0, den2 |-> 1]
        ELSE [num |-> dot_product, den2 |-> magnitude1sq * magnitude2sq]

\* the comparison written the wrong way round: similarity <= threshold
SimGE_Reversed(similarity, threshold) ==
    IF threshold <= 0
    THEN /\ similarity.num <= 0
         /\ 10000 * similarity.num * similarity.num
               >= threshold * threshold * similarity.den2
    ELSE \/ similarity.num <= 0
         \/ 10000 * similarity.num * similarity.num
               <= threshold * threshold * similarity.den2

\* similarity >= threshold, threshold given in hundredths
SimGE(similarity, threshold) ==
    IF threshold <= 0
    THEN \/ similarity.num >= 0
         \/ 10000 * similarity.num * similarity.num
               <= threshold * threshold * similarity.den2
    ELSE /\ similarity.num > 0
         /\ 10000 * similarity.num * similarity.num
               >= threshold * threshold * similarity.den2

\* a.similarity < b.similarity
SimLT(a, b) ==
    CASE a.num < 0 /\ b.num >= 0 -> TRUE
      [] a.num >= 0 /\ b.num < 0 -> FALSE
      [] a.num >= 0 /\ b.num >= 0 -> a.num * a.num * b.den2 < b.num * b.num * a.den2
      [] OTHER -> a.num * a.num * b.den2 > b.num * b.num * a.den2

\* models.ExerciseDraft values handed to index_draft
DraftSleep == [title |-> TitleSleep, content |-> "body1", instructions |-> "steps1"]

DraftAnxiety == [title |-> TitleAnxiety, content |-> "body2", instructions |-> "steps2"]

\* models.ReviewMetadata
ReviewMetadata(safety, iterations, revisions) ==
    [safety_score |-> safety, empathy_score |-> None, clarity_score |-> None,
     iteration_count |-> iterations, total_revisions |-> revisions]

\* the (draft, original_message, metadata) triples callers pass to index_draft
IndexCalls == {
    <<DraftSleep,   MsgAnxiety,     None>>,
    <<DraftAnxiety, MsgAnxiety,     Some(ReviewMetadata(Some(90), 1, 1))>>,
    <<DraftAnxiety, MsgAnxietyLoud, None>>,
    <<DraftSleep,   MsgSleep,       Some(ReviewMetadata(None, 0, 0))>>,
    <<DraftAnxiety, MsgSleep,       None>> }

OriginalMessages == {call[2] : call \in IndexCalls}

Queries == {QueryAnxiety, QueryHello}

\* what the embedding service may answer
EmbeddingVectors == {<<1, 0>>, <<1, 1>>, <<0, 0>>}

MaxLimit == 1

Limits == (0 - 1)..MaxLimit

Thresholds == {0, SIMILARITY_THRESHOLD, 100}

\* arguments a caller may pass to delete_draft
DeleteKeys == {_normalize_message(m) : m \in OriginalMessages} \cup {MsgSleep \o <<"!">>}

\* json.dumps(metadata.model_dump()) or json.dumps({})
MetadataJson(metadata) ==
    IF metadata # None THEN Dumps(metadata[1]) ELSE Dumps(EmptyDict)

\* the row index_draft writes
IndexRow(draft, original_message, metadata, embedding) ==
    LET Row(normalized_msg) ==
            [draft_id           |-> normalized_msg,
             normalized_message |-> normalized_msg,
             draft_title        |-> draft.title,
             draft_content      |-> Dumps(draft),
             embedding          |-> Dumps(embedding),
             original_message   |-> original_message,
             metadata           |-> MetadataJson(metadata)]
    IN  Row(_normalize_message(original_message))

\* a plain INSERT into a table without the primary key
InsertOrReplace_PlainInsert(rows, row) == Append(rows, row)

\* INSERT OR REPLACE on the PRIMARY KEY draft_id: rows with the same
\* draft_id are deleted, the new row gets a fresh rowid
InsertOrReplace(rows, row) ==
    SelectSeq(rows, LAMBDA r : r.draft_id # row.draft_id) \o <<row>>

\* a DELETE without its WHERE clause
DeleteWhere_AllRows(rows, normalized_message) == <<>>

\* DELETE FROM draft_embeddings WHERE normalized_message = ?
DeleteWhere(rows, normalized_message) ==
    SelectSeq(rows, LAMBDA r : r.normalized_message # normalized_message)

\* the topic validation applied also to a query without topics
TopicMismatch_Unconditional(row, query_topics) ==
    LET draft_text_for_topics == row.original_message \o <<" ">> \o row.draft_title
        draft_topics == extract_topics(draft_text_for_topics)
    IN  (query_topics \cap draft_topics) = {}

\* the topic validation of search_drafts: TRUE when the row is skipped
TopicMismatch(row, query_topics) ==
    LET draft_text_for_topics == row.original_message \o <<" ">> \o row.draft_title
        draft_topics == extract_topics(draft_text_for_topics)
    IN  query_topics # {} /\ (query_topics \cap draft_topics) = {}

\* the scan loop without its threshold test
SearchRow_NoThreshold(row, query_embedding, query_topics, threshold) ==
    LET stored_embedding == Loads(row.embedding)
        similarity == cosine_similarity(query_embedding, stored_embedding)
    IN  IF TopicMismatch(row, query_topics) THEN <<>>
        ELSE << [draft_id           |-> row.draft_id,
                 normalized_message |-> row.normalized_message,
                 draft              |-> Loads(row.draft_content),
                 original_message   |-> row.original_message,
                 metadata           |-> Loads(row.metadata),
                 similarity         |-> similarity,
                 title              |-> row.draft_title] >>

\* one iteration of the scan loop of search_drafts: the results appended
SearchRow(row, query_embedding, query_topics, threshold) ==
    LET stored_embedding == Loads(row.embedding)
        similarity == cosine_similarity(query_embedding, stored_embedding)
    IN  IF ~SimGE(similarity, threshold) THEN <<>>
        ELSE IF TopicMismatch(row, query_topics) THEN <<>>
        ELSE << [draft_id           |-> row.draft_id,
                 normalized_message |-> row.normalized_message,
                 draft              |-> Loads(row.draft_content),
                 original_message   |-> row.original_message,
                 metadata           |-> Loads(row.metadata),
                 similarity         |-> similarity,
                 title              |-> row.draft_title] >>

\* the scan loop has no handler around json.loads: it raises at the first row
\* whose embedding is no JSON, or whose payload or metadata is no JSON once
\* the row has passed the threshold and the topic validation
ScanRaises(rows, query_embedding, query_topics, threshold) ==
    \E i \in 1..Len(rows) :
        \/ ~Decodes(rows[i].embedding)
        \/ /\ (~Decodes(rows[i].draft_content) \/ ~Decodes(rows[i].metadata))
           /\ SimGE(cosine_similarity(query_embedding, Loads(rows[i].embedding)), threshold)
           /\ ~TopicMismatch(rows[i], query_topics)

\* results.sort(key=similarity, reverse=True): stable, highest first
RECURSIVE SortBySimilarity(_)
SortBySimilarity(results) ==
    IF results = <<>> THEN <<>>
    ELSE LET r    == results[Len(results)]
             rest == SortBySimilarity(SubSeq(results, 1, Len(results) - 1))
             ahead == SelectSeq(rest, LAMBDA x : ~SimLT(x.similarity, r.similarity))
             after == SelectSeq(rest, LAMBDA x : SimLT(x.similarity, r.similarity))
         IN  ahead \o <<r>> \o after

\* results[:limit]
Slice(results, limit) ==
    IF limit >= 0 THEN Prefix(results, limit)
    ELSE Prefix(results, Max(0, Len(results) + limit))

\* the list search_drafts returns for the given rows
SearchResults(rows, query, query_embedding, limit, threshold) ==
    LET query_topics == extract_topics(query)
        results == Concat([i \in 1..Len(rows) |->
                       SearchRow(rows[i], query_embedding, query_topics, threshold)])
    IN  Slice(SortBySimilarity(results), limit)

NoArgs == [none |-> TRUE]

\* the coroutines that may be inside index_draft at the same time
Callers == {"A", "B"}

\* a caller that has not called index_draft
NotCalled == [pc |-> "idle", row |-> None, found |-> None, pending |-> None,
              error |-> "none"]

StoreInit ==
    /\ inflight = [c \in Callers |-> NotCalled]
    /\ tableExists = FALSE
    /\ table = <<>>
    /\ sOp = "none"
    /\ sArgs = NoArgs
    /\ sReplaced = <<>>
    /\ sKey = <<>>
    /\ sResults = <<>>
    /\ sPrev = None
    /\ sError = "none"
    /\ sBefore = <<>>

\* vector_store.initialize_vector_store
initialize_vector_store ==
    /\ tableExists' = TRUE
    /\ sOp' = "initialize_vector_store"
    /\ sArgs' = NoArgs
    /\ sReplaced' = <<>>
    /\ sKey' = <<>>
    /\ sResults' = <<>>
    /\ sPrev' = None
    /\ sError' = "none"
    /\ sBefore' = <<>>
    /\ UNCHANGED <<table, inflight, normVars, graphVars, envVars>>

\* generate_embedding could not get a client
NoEmbedding == <<>>

\* vector_store.generate_embedding: the vectors the call may return, or the
\* ValueError of get_openai_client when OPENAI_API_KEY is not set
generate_embedding == IF apiKey THEN EmbeddingVectors ELSE {NoEmbedding}

\* vector_store.index_draft
index_draft(draft, original_message, metadata) ==
    \E embedding \in generate_embedding :
      \E row \in {IndexRow(draft, original_message, metadata, embedding)} :
            /\ sOp' = "index_draft"
            /\ sArgs' = [draft |-> draft, original_message |-> original_message,
                         metadata |-> metadata, embedding |-> embedding]
            /\ sResults' = <<>>
            /\ sPrev' = None
            /\ sBefore' = <<>>
            /\ IF embedding = NoEmbedding
               THEN /\ table' = table
                    /\ sReplaced' = <<>>
                    /\ sKey' = <<>>
                    /\ sError' = "ValueError"
               ELSE IF tableExists
               THEN /\ table' = InsertOrReplace(table, row)
                    /\ sReplaced' = SelectSeq(table, LAMBDA r : r.draft_id = row.draft_id)
                    /\ sKey' = row.draft_id
                    /\ sError' = "none"
               ELSE /\ table' = table
                    /\ sReplaced' = <<>>
                    /\ sKey' = <<>>
                    /\ sError' = "OperationalError"
            /\ UNCHANGED <<tableExists, inflight, normVars, graphVars, envVars>>

\* index_draft up to its first await: the key, the embedding and the JSON
\* columns are computed without yielding, then aiosqlite.connect suspends
\* the coroutine.  found: the committed rows at that moment.
index_draft_connect(c, draft, original_message, metadata) ==
    /\ inflight[c].pc = "idle"
    /\ \E embedding \in generate_embedding :
         inflight' = [inflight EXCEPT ![c] =
             IF embedding = NoEmbedding
             THEN [@ EXCEPT !.pc = "failed", !.error = "ValueError"]
             ELSE [@ EXCEPT !.pc = "connected",
                            !.row = Some(IndexRow(draft, original_message,
                                                  metadata, embedding)),
                            !.found = Some(table)]]
    /\ UNCHANGED <<tableExists, table, sOp, sArgs, sReplaced, sKey, sResults,
                   sPrev, sError, sBefore, normVars, graphVars, envVars>>

\* another connection holds the write lock of the database file: it has
\* executed its statement and not committed
WriteLocked(c) == \E other \in Callers \ {c} : inflight[other].pc = "executed"

\* await db.execute(INSERT OR REPLACE ...): the statement runs in the
\* connection's own transaction once the write lock is free; pending: the
\* rows of that transaction, invisible to the other connection
index_draft_execute(c) ==
    /\ inflight[c].pc = "connected"
    /\ ~WriteLocked(c)
    /\ inflight' = [inflight EXCEPT ![c] =
           IF tableExists
           THEN [@ EXCEPT !.pc = "executed",
                          !.pending = Some(InsertOrReplace(table, inflight[c].row[1]))]
           ELSE [@ EXCEPT !.pc = "failed", !.error = "OperationalError"]]
    /\ UNCHANGED <<tableExists, table, sOp, sArgs, sReplaced, sKey, sResults,
                   sPrev, sError, sBefore, normVars, graphVars, envVars>>

\* await db.execute(...) gives up waiting for the write lock (sqlite3's
\* timeout): "database is locked", the connection closes, nothing written
index_draft_locked(c) ==
    /\ inflight[c].pc = "connected"
    /\ WriteLocked(c)
    /\ inflight' = [inflight EXCEPT ![c] =
           [@ EXCEPT !.pc = "failed", !.error = "database is locked"]]
    /\ UNCHANGED <<tableExists, table, sOp, sArgs, sReplaced, sKey, sResults,
                   sPrev, sError, sBefore, normVars, graphVars, envVars>>

\* await db.commit(): the transaction's rows become the committed rows and
\* the write lock is released; index_draft returns the key
index_draft_commit(c) ==
    /\ inflight[c].pc = "executed"
    /\ table' = inflight[c].pending[1]
    /\ inflight' = [inflight EXCEPT ![c] = [@ EXCEPT !.pc = "done"]]
    /\ UNCHANGED <<tableExists, sOp, sArgs, sReplaced, sKey, sResults,
                   sPrev, sError, sBefore, normVars, graphVars, envVars>>

\* vector_store.search_drafts.  A search that directly follows a search
\* repeats it at some threshold; any other search after it reaches the
\* state that search reaches right after the last write.
search_drafts(query, limit, threshold) ==
    \E query_embedding \in generate_embedding :
        LET args == [query |-> query, limit |-> limit, threshold |-> threshold,
                     embedding |-> query_embedding]
            comparable == /\ sOp = "search_drafts" /\ sError = "none"
                          /\ sArgs.query = query /\ sArgs.limit = limit
                          /\ sArgs.embedding = query_embedding
        IN  /\ sOp = "search_drafts" => comparable
            /\ sOp' = "search_drafts"
            /\ sArgs' = args
            /\ sReplaced' = <<>>
            /\ sKey' = <<>>
            /\ sBefore' = <<>>
            /\ IF query_embedding = NoEmbedding
               THEN /\ sResults' = <<>>
                    /\ sPrev' = None
                    /\ sError' = "ValueError"
               ELSE IF tableExists /\ ScanRaises(table, query_embedding,
                                             extract_topics(query), threshold)
               THEN /\ sResults' = <<>>
                    /\ sPrev' = None
                    /\ sError' = "JSONDecodeError"
               ELSE IF tableExists
               THEN /\ sResults' = SearchResults(table, query, query_embedding, limit, threshold)
                    /\ sPrev' = IF comparable
                                THEN Some([threshold |-> sArgs.threshold, count |-> Len(sResults)])
                                ELSE None
                    /\ sError' = "none"
               ELSE /\ sResults' = <<>>
                    /\ sPrev' = None
                    /\ sError' = "OperationalError"
            /\ UNCHANGED <<tableExists, table, inflight, normVars, graphVars, envVars>>

\* vector_store.delete_draft
delete_draft(normalized_message) ==
    /\ sOp' = "delete_draft"
    /\ sArgs' = [normalized_message |-> normalized_message]
    /\ sReplaced' = <<>>
    /\ sKey' = <<>>
    /\ sResults' = <<>>
    /\ sPrev' = None
    /\ sBefore' = table
    /\ IF tableExists
       THEN /\ table' = DeleteWhere(table, normalized_message)
            /\ sError' = "none"
       ELSE /\ table' = table
            /\ sError' = "OperationalError"
    /\ UNCHANGED <<tableExists, inflight, normVars, graphVars, envVars>>

\* columns of the table that hold no JSON at one time
MaxMalformed == 1

MalformedCells ==
    {<<i, column>> \in (1..Len(table)) \X JsonColumns : ~Decodes(table[i][column])}

\* the columns are declared TEXT without any check, and the table lives in
\* the database file the checkpointer shares: another writer of that file
\* leaves a text that is no JSON in one column of a stored row
StoreMalformed(i, column) ==
    /\ tableExists
    /\ i \in 1..Len(table)
    /\ Cardinality(MalformedCells) < MaxMalformed
    /\ table' = [table EXCEPT ![i] = [@ EXCEPT ![column] = Malformed]]
    /\ sOp' = "external write"
    /\ sArgs' = [row |-> i, column |-> column]
    /\ sReplaced' = <<>>
    /\ sKey' = <<>>
    /\ sResults' = <<>>
    /\ sPrev' = None
    /\ sError' = "none"
    /\ sBefore' = <<>>
    /\ UNCHANGED <<tableExists, inflight, normVars, graphVars, envVars>>

----------------------------------------------------------------------------
(* state.py: AgentState and its reducers *)

Threads == {"T1", "T2"}

\* runs (POST /stream or an editing POST /approve) started per thread
MaxRuns == 2

\* node activations explored per run
MaxActivations == 7

\* Optional[str]: Python None is the string "None"
NoneStr == "None"

\* langgraph.graph.END
END == "__end__"

\* the keys declared by the AgentState TypedDict
AgentStateFields == {"messages", "current_draft", "draft_history", "critiques",
                     "scratchpad", "metadata", "next_worker", "last_reviewer"}

\* the fields declared Annotated[List[...], operator.add]
ConcatFields == {"draft_history", "critiques", "scratchpad"}

\* the thread has no checkpoint: aget_state(...).values == {}
NoValues == [k \in {} |-> 0]

\* state.get(key, default)
StateGet(state, key, default) == IF key \in DOMAIN state THEN state[key] ELSE default

\* a message without id, as nodes and handlers build them
HumanMessage == [id |-> 0, type |-> "human"]

AIMessage == [id |-> 0, type |-> "ai"]

\* langgraph add_messages: a message whose id is already in the list replaces
\* that entry in place, any other message is appended (one without id gets a
\* fresh id first)
RECURSIVE add_messages(_, _)
add_messages(left, right) ==
    IF right = <<>> THEN left
    ELSE LET m    == Head(right)
             hits == {i \in 1..Len(left) : left[i].id = m.id}
             fresh == [m EXCEPT !.id = Len(left) + 1]
         IN  IF m.id # 0 /\ hits # {}
             THEN add_messages([i \in 1..Len(left) |-> IF i \in hits THEN m ELSE left[i]],
                               Tail(right))
             ELSE add_messages(Append(left, IF m.id = 0 THEN fresh ELSE m), Tail(right))

\* every channel a last-value channel: the update replaces the old value
Reduce_Overwrite(field, old, update) == update

\* the reducer the AgentState annotation selects for a field
Reduce(field, old, update) ==
    IF field = "messages" THEN add_messages(old, update)
    ELSE IF field \in ConcatFields THEN old \o update
    ELSE update

\* the engine's merge of a partial update (or of the run input) into the
\* channel values: keys that AgentState does not declare are dropped,
\* list channels start from the empty list
Merge(state, update) ==
    LET written == DOMAIN update \cap AgentStateFields
    IN  [k \in DOMAIN state \cup written |->
            IF k \in written
            THEN Reduce(k, StateGet(state, k, <<>>), update[k])
            ELSE state[k]]

----------------------------------------------------------------------------
(* graph.py: routing functions and conditional-edge mappings *)

Nodes == {"memory_agent", "intent_router", "chat", "supervisor",
          "drafter", "safety_guardian", "clinical_critic"}

\* state["next_worker"]; a missing key raises, which no mapping resolves
KeyError == "KeyError"

route_supervisor(state) ==
    LET next_node == StateGet(state, "next_worker", KeyError)
    IN  IF next_node = "end" THEN END ELSE next_node

SupervisorEdges ==
    ("drafter" :> "drafter") @@ ("safety_guardian" :> "safety_guardian") @@
    ("clinical_critic" :> "clinical_critic") @@ ("human_review" :> END) @@
    ("end" :> END)

route_intent(state) ==
    LET next_node == StateGet(state, "next_worker", KeyError)
    IN  IF next_node = KeyError THEN KeyError
        ELSE IF next_node = "chat" THEN "chat" ELSE "supervisor"

IntentEdges == ("chat" :> "chat") @@ ("supervisor" :> "supervisor")

route_memory(state) ==
    LET memory_result == StateGet(state, "memory_result", None)
        next_worker   == StateGet(state, "next_worker", "intent_router")
    IN  IF /\ memory_result # None
           /\ memory_result[1].intent = "retrieve"
           /\ memory_result[1].found
        THEN END
        ELSE IF next_worker = "chat" THEN "chat" ELSE "intent_router"

MemoryEdges ==
    ("intent_router" :> "intent_router") @@ ("chat" :> "chat") @@ (END :> END)

\* a conditional edge: the routing function's value looked up in the mapping
Resolve(edges, value) ==
    IF value \in DOMAIN edges
    THEN [raised |-> FALSE, dest |-> edges[value]]
    ELSE [raised |-> TRUE, dest |-> KeyError]

\* the fixed edges of the workers pointing at the drafter
Route_WorkersToDrafter(node, state) ==
    CASE node = "memory_agent"  -> Resolve(MemoryEdges, route_memory(state))
      [] node = "intent_router" -> Resolve(IntentEdges, route_intent(state))
      [] node = "supervisor"    -> Resolve(SupervisorEdges, route_supervisor(state))
      [] node = "chat"          -> [raised |-> FALSE, dest |-> END]
      [] OTHER                  -> [raised |-> FALSE, dest |-> "drafter"]

\* the edge leaving a node, evaluated on the merged state
Route(node, state) ==
    CASE node = "memory_agent"  -> Resolve(MemoryEdges, route_memory(state))
      [] node = "intent_router" -> Resolve(IntentEdges, route_intent(state))
      [] node = "supervisor"    -> Resolve(SupervisorEdges, route_supervisor(state))
      [] node = "chat"          -> [raised |-> FALSE, dest |-> END]
      [] OTHER                  -> [raised |-> FALSE, dest |-> "supervisor"]

----------------------------------------------------------------------------
(* backend.agents: the partial updates the nodes return *)

MemoryResult(intent, found) == Some([intent |-> intent, found |-> found])

memory_agent_node(state) ==
    { [memory_result |-> MemoryResult("retrieve", TRUE), messages |-> <<AIMessage>>],
      [memory_result |-> MemoryResult("retrieve", FALSE)],
      [memory_result |-> MemoryResult("store", FALSE), next_worker |-> "chat"] }

intent_router_node(state) ==
    { [next_worker |-> "chat"], [next_worker |-> "supervisor"] }

\* the reply is a new message, alone or after a rewrite of the first message
chat_response_node(state) ==
    { [messages |-> <<AIMessage>>],
      [messages |-> <<[id |-> 1, type |-> "ai"], AIMessage>>] }

\* routes to drafting whenever no current_draft exists
supervisor_node(state) ==
    IF StateGet(state, "current_draft", None) = None
    THEN { [next_worker |-> "drafter"] }
    ELSE { [next_worker |-> w] :
             w \in {"drafter", "safety_guardian", "clinical_critic", "human_review", "end"} }

\* models.ExerciseDraft as the drafter produces version n
GeneratedDraft(n) ==
    [title |-> "exercise", content |-> <<"generated", n>>, instructions |-> "steps"]

\* models.DraftVersion
DraftVersion(n, draft) ==
    [version_number |-> n, draft |-> draft, created_by |-> "drafter"]

\* writes current_draft together with the matching draft_history entry
drafter_node(state) ==
    LET n        == Len(StateGet(state, "draft_history", <<>>)) + 1
        metadata == StateGet(state, "metadata", ReviewMetadata(None, 0, 0))
    IN  { [current_draft |-> Some(GeneratedDraft(n)),
           draft_history |-> <<DraftVersion(n, GeneratedDraft(n))>>,
           metadata      |-> [metadata EXCEPT !.total_revisions = @ + 1,
                                              !.iteration_count = @ + 1]] }

\* models.Critique and models.AgentNote written by a reviewer
ReviewUpdate(author, approved) ==
    [critiques     |-> <<[author |-> author, approved |-> approved]>>,
     scratchpad    |-> <<[author |-> author,
                          priority |-> IF approved THEN "info" ELSE "warning"]>>,
     last_reviewer |-> author]

safety_node(state) == { ReviewUpdate("safety_guardian", b) : b \in BOOLEAN }

clinical_node(state) == { ReviewUpdate("clinical_critic", b) : b \in BOOLEAN }

NodeOutputs(node, state) ==
    CASE node = "memory_agent"    -> memory_agent_node(state)
      [] node = "intent_router"   -> intent_router_node(state)
      [] node = "chat"            -> chat_response_node(state)
      [] node = "supervisor"      -> supervisor_node(state)
      [] node = "drafter"         -> drafter_node(state)
      [] node = "safety_guardian" -> safety_node(state)
      [] node = "clinical_critic" -> clinical_node(state)

----------------------------------------------------------------------------
(* server.py: the handlers and the runs they start *)

NoUpdate == [k \in {} |-> 0]

Idle == [status |-> "idle", next |-> "none"]

GraphInit ==
    /\ checkpoint = [t \in Threads |-> NoValues]
    /\ run = [t \in Threads |-> Idle]
    /\ activated = [t \in Threads |-> <<>>]
    /\ lastOut = [t \in Threads |-> NoUpdate]
    /\ runs = [t \in Threads |-> 0]
    /\ reply = [t \in Threads |-> "none"]
    /\ request = [t \in Threads |-> "none"]
    /\ events = [t \in Threads |-> <<>>]
    /\ body = [t \in Threads |-> NoValues]
    /\ prior = [t \in Threads |-> [status |-> "none", values |-> NoValues]]
    /\ sent = [t \in Threads |-> [op |-> "none", edited_content |-> None]]

\* a checkpointer that ignores the thread id: one state for all threads
PutCheckpoint_Unkeyed(saved, t, values) == [u \in DOMAIN saved |-> values]

\* the checkpointer writes under config["configurable"]["thread_id"]
PutCheckpoint(saved, t, values) == [saved EXCEPT ![t] = values]

\* graph.astream / graph.ainvoke with an input: the input is merged and
\* checkpointed, and the run starts at the entry point
StartRun(t, inputs, outcome, by) ==
    /\ checkpoint' = PutCheckpoint(checkpoint, t, Merge(checkpoint[t], inputs))
    /\ run' = [run EXCEPT ![t] = [status |-> "running", next |-> "memory_agent"]]
    /\ activated' = [activated EXCEPT ![t] = <<>>]
    /\ lastOut' = [lastOut EXCEPT ![t] = NoUpdate]
    /\ runs' = [runs EXCEPT ![t] = @ + 1]
    /\ reply' = [reply EXCEPT ![t] = outcome]
    /\ request' = [request EXCEPT ![t] = by]
    /\ events' = IF by = "stream" THEN [events EXCEPT ![t] = <<>>] ELSE events
    /\ body' = [body EXCEPT ![t] = NoValues]
    /\ prior' = [prior EXCEPT ![t] = [status |-> run[t].status, values |-> checkpoint[t]]]

\* every request sends the initial values of all fields
StreamInputs_AlwaysInitial(current_state) ==
    [messages      |-> <<HumanMessage>>,
     current_draft |-> None,
     draft_history |-> <<>>,
     critiques     |-> <<>>,
     scratchpad    |-> <<>>,
     metadata      |-> ReviewMetadata(None, 0, 0),
     last_reviewer |-> NoneStr]

\* the inputs stream_workflow builds: the initial state for a thread without
\* values, the new message alone for any other
StreamInputs(current_state) ==
    IF current_state = NoValues
    THEN [messages      |-> <<HumanMessage>>,
          current_draft |-> None,
          draft_history |-> <<>>,
          critiques     |-> <<>>,
          scratchpad    |-> <<>>,
          metadata      |-> ReviewMetadata(None, 0, 0),
          last_reviewer |-> NoneStr]
    ELSE [messages |-> <<HumanMessage>>]

\* POST /stream
stream_workflow(t) ==
    LET current_state == checkpoint[t]
    IN  /\ run[t].status # "running"
        /\ runs[t] < quota[t].runs
        /\ StartRun(t, StreamInputs(current_state), "streaming", "stream")
        /\ sent' = [sent EXCEPT ![t] = [op |-> "stream", edited_content |-> None]]
        /\ UNCHANGED <<normVars, storeVars, envVars>>

\* the values of edited_content: absent, the empty string, or a new body
EditedContents == {None, Some(<<>>), Some(<<"edited", 0>>)}

\* `if data.edited_content:` is false for None and for the empty string
Truthy(edited_content) == edited_content # None /\ edited_content[1] # <<>>

\* POST /approve
approve_draft(t, edited_content) ==
    LET current_state == checkpoint[t]
        draft == StateGet(current_state, "current_draft", None)
    IN  /\ run[t].status # "running"
        /\ quota[t].runs > 0
        /\ sent' = [sent EXCEPT ![t] = [op |-> "approve", edited_content |-> edited_content]]
        /\ IF current_state = NoValues
           THEN /\ reply' = [reply EXCEPT ![t] = "404"]
                /\ body' = [body EXCEPT ![t] = NoValues]
                /\ UNCHANGED <<checkpoint, run, activated, lastOut, runs, request, events, prior>>
           ELSE IF ~Truthy(edited_content)
           THEN /\ reply' = [reply EXCEPT ![t] = "approved"]
                /\ body' = [body EXCEPT ![t] = NoValues]
                /\ UNCHANGED <<checkpoint, run, activated, lastOut, runs, request, events, prior>>
           ELSE IF draft = None
           THEN /\ reply' = [reply EXCEPT ![t] = "400"]
                /\ body' = [body EXCEPT ![t] = NoValues]
                /\ UNCHANGED <<checkpoint, run, activated, lastOut, runs, request, events, prior>>
           ELSE /\ runs[t] < quota[t].runs
                /\ StartRun(t, [current_draft |->
                                  Some([draft[1] EXCEPT !.content = edited_content[1]])],
                            "approving", "approve")
        /\ UNCHANGED <<normVars, storeVars, envVars>>

\* the handler without its `if not state.values` test
StateResponse_NoNotFound(state) ==
    [status |-> "200",
     json   |-> [current_draft |-> StateGet(state, "current_draft", None),
                 draft_history |-> StateGet(state, "draft_history", <<>>),
                 critiques     |-> StateGet(state, "critiques", <<>>),
                 scratchpad    |-> StateGet(state, "scratchpad", <<>>),
                 metadata      |-> StateGet(state, "metadata", None),
                 last_reviewer |-> StateGet(state, "last_reviewer", NoneStr),
                 next_worker   |-> StateGet(state, "next_worker", NoneStr)]]

\* what get_state answers for the values it read: HTTPException(404), or
\* the dictionary it returns
StateResponse(state) ==
    IF state = NoValues
    THEN [status |-> "404", json |-> NoValues]
    ELSE [status |-> "200",
          json   |-> [current_draft |-> StateGet(state, "current_draft", None),
                      draft_history |-> StateGet(state, "draft_history", <<>>),
                      critiques     |-> StateGet(state, "critiques", <<>>),
                      scratchpad    |-> StateGet(state, "scratchpad", <<>>),
                      metadata      |-> StateGet(state, "metadata", None),
                      last_reviewer |-> StateGet(state, "last_reviewer", NoneStr),
                      next_worker   |-> StateGet(state, "next_worker", NoneStr)]]

\* GET /state/{thread_id}.  The client sends its requests on a thread one
\* after the other; every checkpoint of a run is read after Abandon.
get_state(t) ==
    LET state == checkpoint[t]
    IN  /\ run[t].status # "running"
        /\ quota[t].runs > 0
        /\ sent' = [sent EXCEPT ![t] = [op |-> "state", edited_content |-> None]]
        /\ reply' = [reply EXCEPT ![t] = StateResponse(state).status]
        /\ body' = [body EXCEPT ![t] = StateResponse(state).json]
        /\ UNCHANGED <<checkpoint, run, activated, lastOut, runs, request, events,
                       prior, normVars, storeVars, envVars>>

\* the events generate() yields: one per node update, then the markers
NodeEvent(node) == [type |-> "node", node |-> node]

CompleteEvent == [type |-> "complete", node |-> "none"]

ErrorEvent == [type |-> "error", node |-> "none"]

\* generate() yields only on the response of a /stream request
Emit(t, yielded) ==
    events' = IF request[t] = "stream"
              THEN [events EXCEPT ![t] = @ \o yielded]
              ELSE events

\* every failed activation's update reaches the checkpoint as well
Commit_Always(state, merged, raised) == merged

\* the checkpointer the graph is compiled with saves the merged state of an
\* activation that succeeded; a failed activation saves no state
Commit(state, merged, raised) == IF raised THEN state ELSE merged

\* generate() without its except clause: the stream just ends
Fail_Silent(t) ==
    /\ run' = [run EXCEPT ![t] = [status |-> "error", next |-> "none"]]
    /\ reply' = [reply EXCEPT ![t] = IF request[t] = "stream" THEN "error event" ELSE "500"]
    /\ UNCHANGED events

\* an exception leaves astream / ainvoke: generate() yields the error event,
\* approve_draft lets it pass to the framework
Fail(t) ==
    /\ run' = [run EXCEPT ![t] = [status |-> "error", next |-> "none"]]
    /\ reply' = [reply EXCEPT ![t] = IF request[t] = "stream" THEN "error event" ELSE "500"]
    /\ Emit(t, <<ErrorEvent>>)

\* one activation of `node`, the node due next in the run of thread t: the
\* node returns an update, the update is merged, the edge leaving the node is
\* evaluated on the merged state, and the merged state is checkpointed.  An
\* edge that raises fails the activation, whose writes are then not applied;
\* so does a node function that raises instead of returning an update, as
\* every node does when the client of the external capability cannot be made.
Activate(t, node) ==
    /\ Len(activated[t]) < quota[t].activations
    /\ activated' = [activated EXCEPT ![t] = Append(@, node)]
    /\ \/ /\ lastOut' = [lastOut EXCEPT ![t] = NoUpdate]
          /\ checkpoint' = PutCheckpoint(checkpoint, t,
                                         Commit(checkpoint[t], checkpoint[t], TRUE))
          /\ Fail(t)
       \/ \E update \in {u \in NodeOutputs(node, checkpoint[t]) : apiKey} :
            \E merged \in {Merge(checkpoint[t], update)} :
              \E routed \in {Route(node, merged)} :
                /\ lastOut' = [lastOut EXCEPT ![t] = update]
                /\ checkpoint' = PutCheckpoint(checkpoint, t,
                                   Commit(checkpoint[t], merged, routed.raised))
                /\ IF routed.raised
                   THEN Fail(t)
                   ELSE IF routed.dest = END
                   THEN /\ run' = [run EXCEPT ![t] = [status |-> "done", next |-> END]]
                        /\ reply' = [reply EXCEPT ![t] =
                                        IF request[t] = "stream" THEN "complete" ELSE "approved"]
                        /\ Emit(t, <<NodeEvent(node), CompleteEvent>>)
                   ELSE /\ run' = [run EXCEPT ![t] =
                                      [status |-> "running", next |-> routed.dest]]
                        /\ Emit(t, <<NodeEvent(node)>>)
                        /\ UNCHANGED reply
    /\ UNCHANGED <<runs, request, body, prior, sent, normVars, storeVars, envVars>>

\* the client drops the connection of a /stream response that is still
\* running: the generator is cancelled and the run stops where it is
Abandon(t) ==
    /\ request[t] = "stream"
    /\ run[t].status = "running"
    /\ run' = [run EXCEPT ![t] = [status |-> "abandoned", next |-> "none"]]
    /\ reply' = [reply EXCEPT ![t] = "disconnected"]
    /\ UNCHANGED <<checkpoint, activated, lastOut, runs, request, events,
                   body, prior, sent, normVars, storeVars, envVars>>

\* test_run.main: without the key it prints a hint and returns; with it the
\* runner streams one run of the graph on its own thread
test_run_main ==
    IF ~apiKey
    THEN /\ cli' = [cli EXCEPT !.test_run = "key missing"]
         /\ UNCHANGED <<apiKey, quota, graphVars, normVars, storeVars>>
    ELSE /\ cli' = [cli EXCEPT !.test_run = "started"]
         /\ StartRun("T2", StreamInputs(NoValues), "streaming", "test_run")
         /\ UNCHANGED <<apiKey, quota, sent, normVars, storeVars>>

\* chat.main: without the key it prints an error and returns; with it the
\* chat loop is entered and waits for the first message
chat_main ==
    /\ cli' = [cli EXCEPT !.chat = IF ~apiKey THEN "key missing" ELSE "started"]
    /\ UNCHANGED <<apiKey, quota, graphVars, normVars, storeVars>>

MemoryAgent(t) ==
    /\ run[t] = [status |-> "running", next |-> "memory_agent"]
    /\ Activate(t, "memory_agent")

IntentRouter(t) ==
    /\ run[t] = [status |-> "running", next |-> "intent_router"]
    /\ Activate(t, "intent_router")

Chat(t) ==
    /\ run[t] = [status |-> "running", next |-> "chat"]
    /\ Activate(t, "chat")

Supervisor(t) ==
    /\ run[t] = [status |-> "running", next |-> "supervisor"]
    /\ Activate(t, "supervisor")

Drafter(t) ==
    /\ run[t] = [status |-> "running", next |-> "drafter"]
    /\ Activate(t, "drafter")

SafetyGuardian(t) ==
    /\ run[t] = [status |-> "running", next |-> "safety_guardian"]
    /\ Activate(t, "safety_guardian")

ClinicalCritic(t) ==
    /\ run[t] = [status |-> "running", next |-> "clinical_critic"]
    /\ Activate(t, "clinical_critic")

GraphNext ==
    \E t \in Threads :
        \/ stream_workflow(t)
        \/ \E edited_content \in EditedContents : approve_draft(t, edited_content)
        \/ get_state(t)
        \/ Abandon(t)
        \/ MemoryAgent(t)
        \/ IntentRouter(t)
        \/ Chat(t)
        \/ Supervisor(t)
        \/ Drafter(t)
        \/ SafetyGuardian(t)
        \/ ClinicalCritic(t)

----------------------------------------------------------------------------
(* The environment: credentials, and how much of each thread is explored *)

\* runs and activations per run explored when two threads interleave
MaxPairRuns == 1

MaxPairActivations == 3

\* one thread explored in depth, the other left alone
SingleQuota ==
    [t \in Threads |-> IF t = "T1"
                       THEN [runs |-> MaxRuns, activations |-> MaxActivations]
                       ELSE [runs |-> 0, activations |-> 0]]

\* both threads explored
PairQuota == [t \in Threads |-> [runs |-> MaxPairRuns, activations |-> MaxPairActivations]]

EnvInit(key, quotas) ==
    /\ apiKey = key
    /\ quota = quotas
    /\ cli = [test_run |-> "not run", chat |-> "not run"]

----------------------------------------------------------------------------
(* Specifications *)

StoreNext ==
    \/ initialize_vector_store
    \/ \E call \in IndexCalls : index_draft(call[1], call[2], call[3])
    \/ \E query \in Queries, limit \in Limits, threshold \in Thresholds :
           search_drafts(query, limit, threshold)
    \/ \E normalized_message \in DeleteKeys : delete_draft(normalized_message)

\* _normalize_message applied to bounded inputs
InitNorm == NormInit /\ StoreInit /\ GraphInit /\ EnvInit(TRUE, SingleQuota)

SpecNorm == InitNorm /\ [][NormNext]_vars

\* the vector store driven by arbitrary calls
InitStore == NormIdle /\ StoreInit /\ GraphInit /\ EnvInit(TRUE, SingleQuota)

SpecStore == InitStore /\ [][StoreNext]_vars

\* two coroutines inside index_draft at once, on a store that earlier calls,
\* one at a time, created and filled
Quiet == \A c \in Callers : inflight[c].pc = "idle"

EarlierCalls == {<<DraftAnxiety, MsgAnxietyLoud, None>>,
                 <<DraftSleep, MsgSleep, Some(ReviewMetadata(None, 0, 0))>>}

ConcurrentCalls == IndexCalls \ {<<DraftAnxiety, MsgSleep, None>>}

ConcurrentNext ==
    \/ Quiet /\ initialize_vector_store
    \/ Quiet /\ \E call \in EarlierCalls : index_draft(call[1], call[2], call[3])
    \/ \E c \in Callers, call \in ConcurrentCalls :
           index_draft_connect(c, call[1], call[2], call[3])
    \/ \E c \in Callers : index_draft_execute(c)
    \/ \E c \in Callers : index_draft_locked(c)
    \/ \E c \in Callers : index_draft_commit(c)

InitConcurrent == NormIdle /\ StoreInit /\ GraphInit /\ EnvInit(TRUE, SingleQuota)

SpecConcurrent == InitConcurrent /\ [][ConcurrentNext]_vars

\* the index_draft calls that fill all three JSON columns with data
SharedCalls == {call \in IndexCalls : call[3] # None}

\* the vector store with a second writer of the database file
SharedStoreNext ==
    \/ initialize_vector_store
    \/ \E call \in SharedCalls : index_draft(call[1], call[2], call[3])
    \/ \E query \in Queries, limit \in Limits, threshold \in Thresholds :
           search_drafts(query, limit, threshold)
    \/ \E i \in 1..Len(table), column \in JsonColumns : StoreMalformed(i, column)

InitShared == NormIdle /\ StoreInit /\ GraphInit /\ EnvInit(TRUE, SingleQuota)

SpecShared == InitShared /\ [][SharedStoreNext]_vars

\* every entry point of the backend
ConfigNext ==
    \/ \E t \in Threads :
           \/ stream_workflow(t)
           \/ \E edited_content \in EditedContents : approve_draft(t, edited_content)
           \/ get_state(t)
           \/ Abandon(t)
           \/ MemoryAgent(t)
    \/ test_run_main
    \/ chat_main
    \/ initialize_vector_store
    \/ \E call \in IndexCalls : index_draft(call[1], call[2], call[3])
    \/ \E query \in Queries, limit \in Limits, threshold \in Thresholds :
           search_drafts(query, limit, threshold)

\* the processes started without OPENAI_API_KEY
InitConfig == NormIdle /\ StoreInit /\ GraphInit /\ EnvInit(FALSE, SingleQuota)

SpecConfig == InitConfig /\ [][ConfigNext]_vars

\* requests and runs on two threads in any interleaving; the quota ends a
\* run before it reaches the drafter
PairNext ==
    \E t \in Threads :
        \/ stream_workflow(t)
        \/ \E edited_content \in EditedContents : approve_draft(t, edited_content)
        \/ get_state(t)
        \/ Abandon(t)
        \/ MemoryAgent(t)
        \/ IntentRouter(t)
        \/ Chat(t)
        \/ Supervisor(t)

InitPair == NormIdle /\ StoreInit /\ GraphInit /\ EnvInit(TRUE, PairQuota)

SpecPair == InitPair /\ [][PairNext]_vars

\* the HTTP handlers and the graph runs they drive
Init == NormIdle /\ StoreInit /\ GraphInit /\ EnvInit(TRUE, SingleQuota)

Spec == Init /\ [][GraphNext]_vars

----------------------------------------------------------------------------
\* C5: _normalize_message is idempotent: normalising the key it returned
\* gives that key back.
C5_Idempotent == nPc = "renormalized" => nReKey = nKey

\* C6: two messages that differ only in letter case, in the presence of
\* punctuation or in the length of whitespace runs get the same key.
C6_SameKey == nPc # "input" => nKey = nVarKey

----------------------------------------------------------------------------
(* Vector store claims, checked under SpecStore *)

Rows == {table[i] : i \in 1..Len(table)}

Returned == {sResults[i] : i \in 1..Len(sResults)}

Searched == sOp = "search_drafts" /\ sError = "none"

\* similarity of a stored row to the query of the most recent search
RowSimilarity(row) == cosine_similarity(sArgs.embedding, Loads(row.embedding))

\* C7: the table never holds two rows with one normalized key, and right
\* after index_draft(d, q, m) the single row under normalize(q) carries the
\* title, payload, embedding, message and metadata of that call, whatever
\* was stored under the key before.
C7_Upsert ==
    /\ \A i, j \in 1..Len(table) :
           table[i].normalized_message = table[j].normalized_message => i = j
    /\ (sOp = "index_draft" /\ sError = "none") =>
           LET key  == _normalize_message(sArgs.original_message)
               hits == SelectSeq(table, LAMBDA r : r.normalized_message = key)
           IN  /\ Len(hits) = 1
               /\ sKey = key
               /\ hits[1].draft_id = key
               /\ hits[1].draft_title = sArgs.draft.title
               /\ Loads(hits[1].draft_content) = sArgs.draft
               /\ Loads(hits[1].embedding) = sArgs.embedding
               /\ hits[1].original_message = sArgs.original_message
               /\ Loads(hits[1].metadata) =
                      (IF sArgs.metadata = None THEN EmptyDict ELSE sArgs.metadata[1])

\* C7 witness: index_draft displaced a row stored for the same original
\* text with another draft.
C7_Witness ==
    /\ sOp = "index_draft" /\ sError = "none"
    /\ sReplaced # <<>>
    /\ sReplaced[1].original_message = sArgs.original_message
    /\ Loads(sReplaced[1].draft_content) # sArgs.draft
    /\ Len(table) = 2

\* C8: when the query names a topic, no returned record stems from a row
\* whose original_message contains none of the query's topics.
C8_OriginalMessageGuard ==
    (Searched /\ extract_topics(sArgs.query) # {}) =>
        \A row \in Rows :
            (extract_topics(row.original_message) \cap extract_topics(sArgs.query) = {})
                => \A r \in Returned : r.draft_id # row.draft_id

\* C9: every returned record has similarity >= threshold, a search of an
\* existing table raises nothing, and when no row reaches the threshold the
\* result is the empty list.
C9_ThresholdRespected ==
    (sOp = "search_drafts" /\ tableExists) =>
        /\ sError = "none"
        /\ \A r \in Returned : SimGE(r.similarity, sArgs.threshold)
        /\ (\A row \in Rows : ~SimGE(RowSimilarity(row), sArgs.threshold))
               => sResults = <<>>

\* C9 witness: a search returned a record while another row stayed below
\* the threshold.
C9_Witness ==
    /\ Searched
    /\ sResults # <<>>
    /\ \E row \in Rows : ~SimGE(RowSimilarity(row), sArgs.threshold)

\* C10: for the same table, query and limit, the search at the higher of two
\* thresholds returns no more records than the search at the lower one.
C10_MonotoneInThreshold ==
    (Searched /\ sPrev # None) =>
        /\ sPrev[1].threshold <= sArgs.threshold => Len(sResults) <= sPrev[1].count
        /\ sPrev[1].threshold >= sArgs.threshold => Len(sResults) >= sPrev[1].count

\* C10 witness: raising the threshold made the result shorter.
C10_Witness ==
    /\ Searched /\ sPrev # None
    /\ sPrev[1].threshold < sArgs.threshold
    /\ Len(sResults) < sPrev[1].count

\* C12: after delete_draft(k) on a created table no row has the key k, the
\* rows under other keys are the ones found before the call, unchanged and
\* in the same order, a call that finds no row under k leaves the table as
\* it was and raises nothing, and a second delete_draft(k) would change nothing.
C12_DeleteIdempotent ==
    (sOp = "delete_draft" /\ tableExists) =>
        LET k    == sArgs.normalized_message
            kept == SelectSeq(sBefore, LAMBDA r : r.normalized_message # k)
        IN  /\ sError = "none"
            /\ \A row \in Rows : row.normalized_message # k
            /\ table = kept
            /\ Len(kept) = Len(sBefore) => table = sBefore
            /\ DeleteWhere(table, k) = table

\* C12 witness: a delete removed one row and left another one in place.
C12_Witness ==
    /\ sOp = "delete_draft" /\ sError = "none"
    /\ Len(sBefore) = 2
    /\ Len(table) = 1

\* C11: a search of an existing table never raises, whatever a stored column
\* holds, and every row that decodes, reaches the threshold and passes the
\* topic validation is returned unless the limit cut the list.
C11_CorruptRecordSkipped ==
    (sOp = "search_drafts" /\ tableExists) =>
        /\ sError = "none"
        /\ \A row \in Rows :
               ( /\ \A column \in JsonColumns : Decodes(row[column])
                 /\ SimGE(RowSimilarity(row), sArgs.threshold)
                 /\ ~TopicMismatch(row, extract_topics(sArgs.query))
                 /\ Len(sResults) < sArgs.limit )
                   => \E r \in Returned : r.draft_id = row.draft_id

----------------------------------------------------------------------------
(* Graph claims, checked under Spec *)

Last(seq) == seq[Len(seq)]

\* the node whose activation produced the current state of thread t
JustRan(t, node) ==
    activated[t] # <<>> /\ Last(activated[t]) = node /\ lastOut[t] # NoUpdate

Values(t, field) == StateGet(checkpoint[t], field, <<>>)

\* C1: after a supervisor activation that left next_worker = "end" the run
\* has ended normally, and after one that named drafter, safety_guardian or
\* clinical_critic that node is the one due next.
C1_SupervisorRouting ==
    \A t \in Threads :
        JustRan(t, "supervisor") =>
            /\ lastOut[t].next_worker = "end" => run[t].status = "done"
            /\ lastOut[t].next_worker \in {"drafter", "safety_guardian", "clinical_critic"}
                   => run[t] = [status |-> "running", next |-> lastOut[t].next_worker]

\* C2: after a memory activation whose output records intent "retrieve" and
\* found = true, the run has ended with memory_agent as its only activation.
C2_RetrievedEndsRun ==
    \A t \in Threads :
        ( /\ JustRan(t, "memory_agent")
          /\ lastOut[t].memory_result = MemoryResult("retrieve", TRUE) )
            => /\ run[t].status = "done"
               /\ activated[t] = <<"memory_agent">>

C4_CurrentDraftIsLatest ==
    \A t \in Threads :
        Values(t, "draft_history") # <<>> =>
            Values(t, "current_draft") = Some(Last(Values(t, "draft_history")).draft)

\* C13: the events of a /stream response are one event per successful
\* activation, in activation order, followed by nothing while the run is
\* under way, by the completion marker alone when the run ended with every
\* activation successful, and by the error event alone when an activation
\* failed; a failed run's stream never holds the completion marker.
C13_OneTerminalEvent ==
    \A t \in Threads :
        request[t] = "stream" =>
            LET n      == Len(events[t])
                failed == run[t].status = "error"
                ended  == run[t].status \in {"done", "error"}
                nodes  == IF ended THEN n - 1 ELSE n
            IN  /\ ended => n >= 1
                /\ nodes = (IF failed THEN Len(activated[t]) - 1 ELSE Len(activated[t]))
                /\ \A i \in 1..nodes : events[t][i] = NodeEvent(activated[t][i])
                /\ run[t].status = "done" => events[t][n] = CompleteEvent
                /\ failed => events[t][n] = ErrorEvent

\* C13 witness: a stream carried node events and then the error event of a
\* node function that raised.
C13_Witness ==
    \E t \in Threads :
        /\ request[t] = "stream"
        /\ run[t].status = "error"
        /\ lastOut[t] = NoUpdate
        /\ Len(events[t]) >= 3

\* C14: the step in which an activation fails leaves the thread's persisted
\* state as the previous step committed it, and no activation follows in
\* the failed run.
C14_FailedUpdateInvisible ==
    [][ \A t \in Threads :
          /\ (run[t].status = "running" /\ run'[t].status = "error")
                 => checkpoint'[t] = checkpoint[t]
          /\ (run[t].status = "error" /\ runs'[t] = runs[t])
                 => (activated'[t] = activated[t] /\ checkpoint'[t] = checkpoint[t]) ]_vars

\* C14 witness: an activation failed after earlier activations of the run
\* had committed a draft.
C14_Witness ==
    \E t \in Threads :
        /\ run[t].status = "error"
        /\ Len(activated[t]) >= 3
        /\ Values(t, "draft_history") # <<>>

\* the state in which a /stream request has just started a run on thread t
StreamStarted(t) == request[t] = "stream" /\ activated[t] = <<>>

\* C15: a run that /stream starts on a thread with persisted values begins
\* with exactly those values, for every field but messages, and with the
\* old messages followed by the one new message; a run on a thread without
\* values begins with the initial state.
C15_ResumesFromCommitted ==
    \A t \in Threads :
        StreamStarted(t) =>
            IF prior[t].values = NoValues
            THEN checkpoint[t] = [messages      |-> <<[id |-> 1, type |-> "human"]>>,
                                  current_draft |-> None,
                                  draft_history |-> <<>>,
                                  critiques     |-> <<>>,
                                  scratchpad    |-> <<>>,
                                  metadata      |-> ReviewMetadata(None, 0, 0),
                                  last_reviewer |-> NoneStr]
            ELSE /\ DOMAIN checkpoint[t] = DOMAIN prior[t].values
                 /\ \A f \in DOMAIN checkpoint[t] \ {"messages"} :
                        checkpoint[t][f] = prior[t].values[f]
                 /\ Len(checkpoint[t].messages) = Len(prior[t].values.messages) + 1
                 /\ SubSeq(checkpoint[t].messages, 1, Len(prior[t].values.messages))
                        = prior[t].values.messages
                 /\ Last(checkpoint[t].messages).type = "human"

\* C15 witness: a run started on a thread whose previous run the client had
\* abandoned after a draft and a critique were committed.
C15_Witness ==
    \E t \in Threads :
        /\ StreamStarted(t)
        /\ prior[t].status = "abandoned"
        /\ StateGet(prior[t].values, "current_draft", None) # None
        /\ StateGet(prior[t].values, "critiques", <<>>) # <<>>

\* C16: GET /state answers 404 exactly for a thread without persisted
\* values, answers 200 with the thread's current_draft (unset when no draft
\* exists yet) for any other, and no GET /state step changes any thread's
\* persisted values.
C16_NotFoundVersusEmpty ==
    /\ [](\A t \in Threads :
            sent[t].op = "state" =>
                /\ checkpoint[t] = NoValues <=> reply[t] = "404"
                /\ checkpoint[t] # NoValues =>
                       /\ reply[t] = "200"
                       /\ body[t].current_draft = StateGet(checkpoint[t], "current_draft", None))
    /\ [][ \A t \in Threads :
             (sent'[t].op = "state" /\ sent'[t] # sent[t]) => checkpoint' = checkpoint ]_vars

\* C16 witness: GET /state answered 200 with current_draft unset.
C16_Witness ==
    \E t \in Threads :
        /\ sent[t].op = "state"
        /\ reply[t] = "200"
        /\ body[t].current_draft = None

\* C17: /approve answers 404 for a thread without persisted values, and 400
\* for a thread with values but no current_draft whenever the request
\* carries edited content.
C17_EditWithoutDraft ==
    \A t \in Threads :
        sent[t].op = "approve" =>
            /\ checkpoint[t] = NoValues => reply[t] = "404"
            /\ ( /\ checkpoint[t] # NoValues
                 /\ sent[t].edited_content # None
                 /\ StateGet(checkpoint[t], "current_draft", None) = None )
                   => reply[t] = "400"

\* C20: when the memory node has run and the run goes on, the node due next
\* is chat only if the memory node's own update asked for chat, and is
\* intent_router otherwise.
C20_NoStaleChat ==
    \A t \in Threads :
        (JustRan(t, "memory_agent") /\ run[t].status = "running") =>
            IF StateGet(lastOut[t], "next_worker", NoneStr) = "chat"
            THEN run[t].next = "chat"
            ELSE run[t].next = "intent_router"

\* the step is a run start or an activation on thread u
RunStep(u) == runs'[u] # runs[u] \/ activated'[u] # activated[u]

\* C19: a run start, activation, merge or checkpoint on one thread leaves
\* the persisted values of every other thread as they were.
C19_ThreadIsolation ==
    [][ \A t, u \in Threads :
          (t # u /\ RunStep(u)) => checkpoint'[t] = checkpoint[t] ]_vars

\* C19 witness: both threads are in the middle of a run, and their persisted
\* values differ.
C19_Witness ==
    /\ \A t \in Threads : run[t].status = "running" /\ activated[t] # <<>>
    /\ checkpoint["T1"] # checkpoint["T2"]

\* C18: without OPENAI_API_KEY no node is ever activated, no thread gets a
\* checkpoint and the vector store gets no record.
C18_FailFast ==
    ~apiKey =>
        /\ \A t \in Threads : activated[t] = <<>> /\ checkpoint[t] = NoValues
        /\ table = <<>>

\* C21: whatever next_worker a supervisor activation returns, the value
\* route_supervisor makes of it is a key of the supervisor mapping, the
\* mapped target is a registered node or END, and the activation does not
\* fail in its routing.
C21_SupervisorTargetsMapped ==
    \A t \in Threads :
        JustRan(t, "supervisor") =>
            LET returned == route_supervisor(lastOut[t])
            IN  /\ returned \in DOMAIN SupervisorEdges
                /\ Resolve(SupervisorEdges, returned).dest \in Nodes \cup {END}
                /\ run[t].status # "error"

\* the positions of a run's activation sequence
Positions(t) == 1..Len(activated[t])

Workers == {"drafter", "safety_guardian", "clinical_critic"}

\* C22: the activations of a run begin with memory_agent, hold
\* memory_agent and intent_router at most once, have a supervisor
\* activation right before every worker activation and right after it when
\* the run goes on, have chat only in last place, and have supervisor only
\* after intent_router.
C22_ActivationsFollowGraph ==
    \A t \in Threads :
        LET a == activated[t]
        IN  /\ a # <<>> => a[1] = "memory_agent"
            /\ \A i, j \in Positions(t) :
                   (a[i] = a[j] /\ a[i] \in {"memory_agent", "intent_router"}) => i = j
            /\ \A i \in Positions(t) :
                   /\ a[i] \in Workers =>
                          /\ i > 1 /\ a[i - 1] = "supervisor"
                          /\ i < Len(a) => a[i + 1] = "supervisor"
                   /\ a[i] = "chat" => i = Len(a)
                   /\ a[i] = "supervisor" =>
                          \E j \in 1..(i - 1) : a[j] = "intent_router"

\* C22 witness: a run went through the drafter and a reviewer and back to
\* the supervisor.
C22_Witness ==
    \E t \in Threads :
        /\ Len(activated[t]) = 7
        /\ activated[t][4] = "drafter"
        /\ activated[t][6] \in {"safety_guardian", "clinical_critic"}
        /\ activated[t][7] = "supervisor"

\* the stored rows that pass the threshold and the topic validation of the
\* most recent search
Survivors ==
    {row \in Rows : /\ SimGE(RowSimilarity(row), sArgs.threshold)
                    /\ ~TopicMismatch(row, extract_topics(sArgs.query))}

\* C23: the list a search returns is in non-increasing order of similarity,
\* holds at most `limit` records (none for a limit below one), and no
\* survivor left out scores strictly higher than a returned record.
C23_SortedAndLimited ==
    Searched =>
        /\ \A i, j \in 1..Len(sResults) :
               i < j => ~SimLT(sResults[i].similarity, sResults[j].similarity)
        /\ Len(sResults) <= Max(0, sArgs.limit)
        /\ \A row \in Survivors :
               (\A r \in Returned : r.draft_id # row.draft_id) =>
                   \A r \in Returned : ~SimLT(r.similarity, RowSimilarity(row))

\* C24: for a query without any topic keyword, the records returned are
\* rows with similarity >= threshold, and every row with similarity >=
\* threshold is returned unless the limit cut the list, whatever the row's
\* original message and title say.
C24_NoTopicNoGuard ==
    (Searched /\ extract_topics(sArgs.query) = {} /\ sArgs.limit >= 0) =>
        /\ \A r \in Returned :
               \E row \in Rows : /\ row.draft_id = r.draft_id
                                 /\ SimGE(RowSimilarity(row), sArgs.threshold)
        /\ \A row \in Rows :
               SimGE(RowSimilarity(row), sArgs.threshold) =>
                   \/ \E r \in Returned : r.draft_id = row.draft_id
                   \/ Len(sResults) = sArgs.limit

\* C24 witness: a query without topics got back a row stored for a request
\* about anxiety.
C24_Witness ==
    /\ Searched
    /\ extract_topics(sArgs.query) = {}
    /\ \E r \in Returned : extract_topics(r.original_message) # {}

Ended(c) == inflight[c].pc \in {"done", "failed"}

\* both callers went through index_draft on a created table, for one key
SameKeyCallsEnded ==
    /\ \A c \in Callers : Ended(c) /\ inflight[c].row # None
                                    /\ inflight[c].error # "OperationalError"
    /\ inflight["A"].row[1].draft_id = inflight["B"].row[1].draft_id

OtherKeys(rows, key) == SelectSeq(rows, LAMBDA r : r.draft_id # key)

\* C25: after two overlapping index_draft calls with the same normalized
\* key have both ended, the table holds exactly one row for the key, that
\* row is in every column the row one of the two calls committed, and the
\* rows under other keys are the ones each call found.
C25_ConcurrentUpsert ==
    SameKeyCallsEnded =>
        LET key == inflight["A"].row[1].draft_id
            kept == SelectSeq(table, LAMBDA r : r.draft_id = key)
        IN  /\ Len(kept) = 1
            /\ \E c \in Callers : /\ inflight[c].pc = "done"
                                   /\ kept[1] = inflight[c].row[1]
            /\ \A c \in Callers :
                   OtherKeys(table, key) = OtherKeys(inflight[c].found[1], key)

\* C25 witness: both calls committed, neither had seen the other's row when
\* it connected, they differ in title and metadata, and a row under another
\* key was in the table.
C25_Witness ==
    /\ SameKeyCallsEnded
    /\ \A c \in Callers : inflight[c].pc = "done"
    /\ inflight["A"].found = inflight["B"].found
    /\ inflight["A"].row[1].draft_title # inflight["B"].row[1].draft_title
    /\ inflight["A"].row[1].metadata # inflight["B"].row[1].metadata
    /\ OtherKeys(table, inflight["A"].row[1].draft_id) # <<>>

\* C26: a run whose node invocations have all returned does not stop short
\* of a terminal routing decision: after any activation that returned, the
\* run is still under way (or the client left) or a route to END ended it.
C26_RunsEndByRouting ==
    \A t \in Threads :
        (activated[t] # <<>> /\ lastOut[t] # NoUpdate) =>
            \/ run[t].status \in {"running", "abandoned"}
            \/ run[t].status = "done" /\ run[t].next = END

====
